---- MODULE Spec2Model ----
(***************************************************************************)
(* A model of the Spogtan parameter-resolution engine                      *)
(* (src/lib/spogtan.ts): the scope stack, the deferred values built by     *)
(* get / with / wrap / default / merge / template, and evaluate.           *)
(*                                                                         *)
(* JavaScript values are tagged records.  A function value (a closure) is  *)
(* a record that names the code it runs (fn), its declared parameter count *)
(* (length, which get() inspects) and the variables it closes over.        *)
(* Running code is big-step: every operator that runs code takes the       *)
(* engine  m = [stack, log]  and returns a completion record               *)
(* [ok, val, err, m]: a normal return or a thrown error, with the engine   *)
(* as that code left it.  log is an observer's trace of the pushes, pops,  *)
(* with-exits, get-forces, merge-forces, template-forces and get_evaluated *)
(* calls of the running call.                                              *)
(***************************************************************************)
EXTENDS Integers, Sequences, FiniteSets

VARIABLES
  stack,    \* Spogtan.stack: the frames currently pushed
  call,     \* the last call the user made on the engine
  outcome,  \* how that call completed: [ok, val, err]
  log       \* the events of that call, in order

vars == <<stack, call, outcome, log>>

(***************************************************************************)
(* Bounds                                                                  *)
(***************************************************************************)
\* the user goes on calling an engine whose stack was left with at most this many frames
MaxDirty == 1
\* the deepest nest of with() around a tree that the user builds
MaxNest == 3
\* the most items the user passes to merge() when calling its result directly
MaxItems == 2
\* the most parameter names the user passes to objectify()
MaxNames == 2
\* depth of the JavaScript call stack granted to one evaluate call
MaxDepth == 12

(***************************************************************************)
(* Values                                                                  *)
(***************************************************************************)
Undefined == [t |-> "undefined"]
Null == [t |-> "null"]
Str(s) == [t |-> "string", s |-> s]
Num(n) == [t |-> "number", n |-> n]
Bool(b) == [t |-> "boolean", b |-> b]
Arr(items) == [t |-> "array", items |-> items]
\* an object is its entries in insertion order, keys distinct
Obj(entries) == [t |-> "object", entries |-> entries]
Entry(k, v) == [k |-> k, v |-> v]

\* value instanceof Function
IsFunction(value) == value.t = "function"

\* parameter in frame
In(parameter, frame) == \E i \in 1..Len(frame) : frame[i].k = parameter

\* frame[parameter]
Lookup(frame, parameter) ==
  frame[CHOOSE i \in 1..Len(frame) : frame[i].k = parameter].v

(***************************************************************************)
(* Completions                                                             *)
(***************************************************************************)
NoError == [kind |-> "none"]
ScopeError == [kind |-> "ScopeError"]
MissingParameterError(parameter, stk) ==
  [kind |-> "MissingParameterError", parameter |-> parameter, stack |-> stk]
UnsupportedMergeTypeError(type) ==
  [kind |-> "UnsupportedMergeTypeError", type |-> type]
TypeError == [kind |-> "TypeError"]
RangeError == [kind |-> "RangeError"]
UserError == [kind |-> "UserError"]

Return(val, m) == [ok |-> TRUE, val |-> val, err |-> NoError, m |-> m]
Throw(err, m) == [ok |-> FALSE, val |-> Undefined, err |-> err, m |-> m]
Emit(m, event) == [m EXCEPT !.log = Append(@, event)]

(***************************************************************************)
(* Closures: what the combinators return                                   *)
(***************************************************************************)
\* (inherited) => (inherited === undefined ? value : inherited)
default(value) ==
  [t |-> "function", fn |-> "default", length |-> 1, value |-> value]

\* () => { this.stack.push(frame); ... }
with(frame, value) ==
  [t |-> "function", fn |-> "with", length |-> 0, frame |-> frame, value |-> value]

\* (frame = {}) => this.with(frame, value): a defaulted parameter is not counted
wrap(value) ==
  [t |-> "function", fn |-> "wrap", length |-> 0, value |-> value]

\* apply with the frame layered on top of the frame of the wrapped with()
apply_layered_on_top(wrapped, frame) ==
  IF wrapped.value.t = "function" /\ wrapped.value.fn = "with"
  THEN with(wrapped.value.frame, with(frame, wrapped.value.value))
  ELSE with(frame, wrapped.value)

\* calling the template that wrap returned with a frame
apply(wrapped, frame) == with(frame, wrapped.value)

\* defaults with the values left as they are
defaults_unwrapped(frame) == frame

\* Object.fromEntries(Object.entries(frame).map(([key, value]) => [key, this.default(value)]))
defaults(frame) ==
  [i \in 1..Len(frame) |-> Entry(frame[i].k, default(frame[i].v))]

\* this.wrap(this.with(this.defaults(defaults), value))
wrap_with_defaults(defaults_frame, value) ==
  wrap(with(defaults(defaults_frame), value))

\* () => { if (this.stack.length === 0) ... }
get(parameter, required) ==
  [t |-> "function", fn |-> "get", length |-> 0,
   parameter |-> parameter, required |-> required]

\* (inherited?) => { const evaluated_items = ... }: an optional parameter is counted
merge(items) ==
  [t |-> "function", fn |-> "merge", length |-> 1, items |-> items]

\* (inherited?) => { const parts = []; ... }
template(strings, parameters) ==
  [t |-> "function", fn |-> "template", length |-> 1,
   strings |-> strings, parameters |-> parameters]

\* a user's (string) => string + suffix
append(suffix) ==
  [t |-> "function", fn |-> "append", length |-> 1, suffix |-> suffix]

\* a user's () => body
thunk(body) == [t |-> "function", fn |-> "thunk", length |-> 0, body |-> body]

\* a user's () => { throw new Error(...) }
thrower == [t |-> "function", fn |-> "thrower", length |-> 0]

(***************************************************************************)
(* Strings are sequences of characters.  String(v), Array.prototype.join,  *)
(* Array.prototype.flat, Object.entries and Object.fromEntries as          *)
(* JavaScript defines them on the values above.                            *)
(***************************************************************************)
Digit(d) == <<"0", "1", "2", "3", "4", "5", "6", "7", "8", "9">>[d + 1]

RECURSIVE NumberToString(_)
NumberToString(n) ==
  IF n < 0 THEN <<"-">> \o NumberToString(0 - n)
  ELSE IF n < 10 THEN <<Digit(n)>>
  ELSE NumberToString(n \div 10) \o <<Digit(n % 10)>>

RECURSIVE ToString(_), join(_, _)
\* String(value), which is also what  value + 'text'  uses
ToString(value) ==
  CASE value.t = "string" -> value.s
    [] value.t = "number" -> NumberToString(value.n)
    [] value.t = "boolean" ->
         IF value.b THEN <<"t", "r", "u", "e">> ELSE <<"f", "a", "l", "s", "e">>
    [] value.t = "null" -> <<"n", "u", "l", "l">>
    [] value.t = "undefined" -> <<"u", "n", "d", "e", "f", "i", "n", "e", "d">>
    [] value.t = "array" -> join(value.items, <<",">>)
    [] OTHER -> <<"[", "o", "b", "j", "e", "c", "t", " ", "O", "b", "j", "e", "c", "t", "]">>

RECURSIVE join_reversed(_, _)
\* join with the elements taken from the last to the first
join_reversed(items, separator) ==
  IF Len(items) = 0 THEN <<>>
  ELSE LET head == IF items[1].t \in {"null", "undefined"} THEN <<>>
                   ELSE ToString(items[1])
       IN IF Len(items) = 1 THEN head
          ELSE join_reversed(Tail(items), separator) \o separator \o head

\* items.join(separator): null and undefined elements give the empty string
join(items, separator) ==
  IF Len(items) = 0 THEN <<>>
  ELSE LET head == IF items[1].t \in {"null", "undefined"} THEN <<>>
                   ELSE ToString(items[1])
       IN IF Len(items) = 1 THEN head
          ELSE head \o separator \o join(Tail(items), separator)

RECURSIVE flat(_)
\* items.flat(): array elements are spread one level, the others are kept
flat(items) ==
  IF Len(items) = 0 THEN <<>>
  ELSE (IF items[1].t = "array" THEN items[1].items ELSE <<items[1]>>)
       \o flat(Tail(items))

\* Object.entries(item), for an item that is neither null nor undefined
\* (arrays and strings of fewer than ten elements)
entries(item) ==
  CASE item.t = "object" -> item.entries
    [] item.t = "array" ->
         [i \in 1..Len(item.items) |->
            Entry(Digit(i - 1), item.items[i])]
    [] item.t = "string" ->
         [i \in 1..Len(item.s) |->
            Entry(Digit(i - 1), Str(<<item.s[i]>>))]
    [] OTHER -> <<>>

RECURSIVE fromEntries(_, _)
\* fromEntries with the first entry of a key kept
fromEntries_first_wins(list, acc) ==
  IF Len(list) = 0 THEN acc
  ELSE LET e == list[1] IN
       IF \E i \in 1..Len(acc) : acc[i].k = e.k
       THEN fromEntries(Tail(list), acc)
       ELSE fromEntries(Tail(list), Append(acc, e))

\* Object.fromEntries(list): a later entry replaces the value of an earlier
\* one with its key, at the earlier one's place
fromEntries(list, acc) ==
  IF Len(list) = 0 THEN acc
  ELSE LET e == list[1] IN
       IF \E i \in 1..Len(acc) : acc[i].k = e.k
       THEN fromEntries(Tail(list),
              [i \in 1..Len(acc) |-> IF acc[i].k = e.k THEN e ELSE acc[i]])
       ELSE fromEntries(Tail(list), Append(acc, e))

\* typeof value
typeof(value) == IF value.t \in {"null", "array"} THEN "object" ELSE value.t

\* value.constructor.name, for a number, a boolean or a function
constructor_name(value) ==
  CASE value.t = "number" -> "Number"
    [] value.t = "boolean" -> "Boolean"
    [] OTHER -> "Function"

\* objectify with the entries of the parameters put after the extra ones
objectify_parameters_last(parameters, extra_object) ==
  Obj(fromEntries(extra_object
                    \o [i \in 1..Len(parameters) |->
                          Entry(parameters[i], get(parameters[i], TRUE))], <<>>))

\* Object.fromEntries([].concat(parameter_entries, extra_entries))
objectify(parameters, extra_object) ==
  Obj(fromEntries([i \in 1..Len(parameters) |->
                     Entry(parameters[i], get(parameters[i], TRUE))]
                    \o extra_object, <<>>))

(***************************************************************************)
(* Running code.  depth is what is left of the JavaScript call stack: a    *)
(* recursion that uses it up ends in the runtime's RangeError.             *)
(***************************************************************************)
RECURSIVE evaluate(_, _, _), evaluate_array(_, _, _, _, _),
          evaluate_object(_, _, _, _, _),
          invoke(_, _, _, _), with_call(_, _, _), get_call(_, _, _),
          get_loop(_, _, _, _, _), get_evaluated(_, _, _, _),
          merge_call(_, _, _, _), template_call(_, _, _, _),
          template_loop(_, _, _, _, _, _)

\* pop that removes the oldest frame
pop_oldest(stk) == IF Len(stk) = 0 THEN stk ELSE SubSeq(stk, 2, Len(stk))

\* this.stack.pop()
pop(stk) == IF Len(stk) = 0 THEN stk ELSE SubSeq(stk, 1, Len(stk) - 1)

\* default_call with the default value winning over the inherited one
default_call_overrides(f, inherited, m) == Return(f.value, m)

\* default_call that takes null for unset
default_call_null_unset(f, inherited, m) ==
  Return(IF inherited \in {Undefined, Null} THEN f.value ELSE inherited, m)

\* the closure returned by default(value)
default_call(f, inherited, m) ==
  Return(IF inherited = Undefined THEN f.value ELSE inherited, m)

\* the closure returned by with(frame, value)
with_call(f, m, depth) ==
  LET pushed == Emit([m EXCEPT !.stack = Append(@, f.frame)],
                     [e |-> "push", frame |-> f.frame, depth |-> Len(m.stack) + 1])
      r == evaluate(f.value, pushed, depth)
  IN IF ~r.ok
     THEN \* the error leaves the closure: this.stack.pop() is not reached
          [r EXCEPT !.m = Emit(@, [e |-> "with", frame |-> f.frame, ok |-> FALSE,
                                   before |-> m.stack, after |-> r.m.stack])]
     ELSE LET top == r.m.stack[Len(r.m.stack)]
              popped == Emit([r.m EXCEPT !.stack = pop(@)],
                             [e |-> "pop", frame |-> top, depth |-> Len(r.m.stack) - 1])
          IN Return(r.val,
                    Emit(popped, [e |-> "with", frame |-> f.frame, ok |-> TRUE,
                                  before |-> m.stack, after |-> popped.stack]))

\* get_loop with a concrete entry kept only where nothing was set before it
get_loop_first_wins(parameter, i, value, m, depth) ==
  IF i > Len(m.stack) THEN Return(value, m)
  ELSE LET frame == m.stack[i] IN
       IF ~In(parameter, frame) THEN get_loop(parameter, i + 1, value, m, depth)
       ELSE LET frame_value == Lookup(frame, parameter) IN
            IF IsFunction(frame_value) /\ frame_value.length = 1
            THEN LET inherited == evaluate(value, m, depth) IN
                 IF ~inherited.ok THEN inherited
                 ELSE LET r == invoke(frame_value, inherited.val, inherited.m, depth) IN
                      IF ~r.ok THEN r
                      ELSE get_loop(parameter, i + 1, r.val, r.m, depth)
            ELSE get_loop(parameter, i + 1,
                          IF value = Undefined THEN frame_value ELSE value, m, depth)

\* get_loop with the InheritedOp given the accumulated value as it stands, unforced
get_loop_unforced(parameter, i, value, m, depth) ==
  IF i > Len(m.stack) THEN Return(value, m)
  ELSE LET frame == m.stack[i] IN
       IF ~In(parameter, frame) THEN get_loop(parameter, i + 1, value, m, depth)
       ELSE LET frame_value == Lookup(frame, parameter) IN
            IF IsFunction(frame_value) /\ frame_value.length = 1
            THEN LET r == invoke(frame_value, value, m, depth) IN
                 IF ~r.ok THEN r
                 ELSE get_loop(parameter, i + 1, r.val, r.m, depth)
            ELSE get_loop(parameter, i + 1, frame_value, m, depth)

\* get_loop scanning from the innermost frame to the outermost
get_loop_reversed(parameter, i, value, m, depth) ==
  IF i > Len(m.stack) THEN Return(value, m)
  ELSE LET frame == m.stack[Len(m.stack) - i + 1] IN
       IF ~In(parameter, frame) THEN get_loop(parameter, i + 1, value, m, depth)
       ELSE LET frame_value == Lookup(frame, parameter) IN
            IF IsFunction(frame_value) /\ frame_value.length = 1
            THEN LET inherited == evaluate(value, m, depth) IN
                 IF ~inherited.ok THEN inherited
                 ELSE LET r == invoke(frame_value, inherited.val, inherited.m, depth) IN
                      IF ~r.ok THEN r
                      ELSE get_loop(parameter, i + 1, r.val, r.m, depth)
            ELSE get_loop(parameter, i + 1, frame_value, m, depth)

\* get_loop with an InheritedOp run on the frames up to the one that holds it
get_loop_definition_scope(parameter, i, value, m, depth) ==
  IF i > Len(m.stack) THEN Return(value, m)
  ELSE LET frame == m.stack[i] IN
       IF ~In(parameter, frame) THEN get_loop(parameter, i + 1, value, m, depth)
       ELSE LET frame_value == Lookup(frame, parameter) IN
            IF IsFunction(frame_value) /\ frame_value.length = 1
            THEN LET inherited == evaluate(value, m, depth) IN
                 IF ~inherited.ok THEN inherited
                 ELSE LET r == invoke(frame_value, inherited.val,
                                      [inherited.m EXCEPT !.stack = SubSeq(@, 1, i)],
                                      depth) IN
                      IF ~r.ok THEN [r EXCEPT !.m.stack = m.stack]
                      ELSE get_loop(parameter, i + 1, r.val,
                                    [r.m EXCEPT !.stack = m.stack], depth)
            ELSE get_loop(parameter, i + 1, frame_value, m, depth)

\* get_loop that stores what an InheritedOp returned in the frame it scanned
get_loop_memoizing(parameter, i, value, m, depth) ==
  IF i > Len(m.stack) THEN Return(value, m)
  ELSE LET frame == m.stack[i] IN
       IF ~In(parameter, frame) THEN get_loop(parameter, i + 1, value, m, depth)
       ELSE LET frame_value == Lookup(frame, parameter) IN
            IF IsFunction(frame_value) /\ frame_value.length = 1
            THEN LET inherited == evaluate(value, m, depth) IN
                 IF ~inherited.ok THEN inherited
                 ELSE LET r == invoke(frame_value, inherited.val, inherited.m, depth) IN
                      IF ~r.ok THEN r
                      ELSE get_loop(parameter, i + 1, r.val,
                                    [r.m EXCEPT !.stack[i] =
                                       [j \in 1..Len(frame) |->
                                          IF frame[j].k = parameter
                                          THEN Entry(parameter, r.val)
                                          ELSE frame[j]]],
                                    depth)
            ELSE get_loop(parameter, i + 1, frame_value, m, depth)

\* get_loop that passes over a frame whose entry for the parameter is undefined
get_loop_undefined_skipped(parameter, i, value, m, depth) ==
  IF i > Len(m.stack) THEN Return(value, m)
  ELSE LET frame == m.stack[i] IN
       IF ~In(parameter, frame) \/ Lookup(frame, parameter) = Undefined
       THEN get_loop(parameter, i + 1, value, m, depth)
       ELSE LET frame_value == Lookup(frame, parameter) IN
            IF IsFunction(frame_value) /\ frame_value.length = 1
            THEN LET inherited == evaluate(value, m, depth) IN
                 IF ~inherited.ok THEN inherited
                 ELSE LET r == invoke(frame_value, inherited.val, inherited.m, depth) IN
                      IF ~r.ok THEN r
                      ELSE get_loop(parameter, i + 1, r.val, r.m, depth)
            ELSE get_loop(parameter, i + 1, frame_value, m, depth)

\* get_loop that passes over an InheritedOp below a later concrete entry
get_loop_short_circuited(parameter, i, value, m, depth) ==
  IF i > Len(m.stack) THEN Return(value, m)
  ELSE LET frame == m.stack[i] IN
       IF ~In(parameter, frame) THEN get_loop(parameter, i + 1, value, m, depth)
       ELSE LET frame_value == Lookup(frame, parameter) IN
            IF IsFunction(frame_value) /\ frame_value.length = 1
            THEN IF \E j \in i + 1..Len(m.stack) :
                      /\ In(parameter, m.stack[j])
                      /\ ~(/\ IsFunction(Lookup(m.stack[j], parameter))
                            /\ Lookup(m.stack[j], parameter).length = 1)
                 THEN get_loop(parameter, i + 1, value, m, depth)
                 ELSE LET inherited == evaluate(value, m, depth) IN
                      IF ~inherited.ok THEN inherited
                      ELSE LET r == invoke(frame_value, inherited.val, inherited.m, depth) IN
                           IF ~r.ok THEN r
                           ELSE get_loop(parameter, i + 1, r.val, r.m, depth)
            ELSE get_loop(parameter, i + 1, frame_value, m, depth)

\* for (const frame of this.stack) { ... }, from the i-th frame on
get_loop(parameter, i, value, m, depth) ==
  IF i > Len(m.stack) THEN Return(value, m)
  ELSE LET frame == m.stack[i] IN
       IF ~In(parameter, frame) THEN get_loop(parameter, i + 1, value, m, depth)
       ELSE LET frame_value == Lookup(frame, parameter) IN
            IF IsFunction(frame_value) /\ frame_value.length = 1
            THEN LET inherited == evaluate(value, m, depth) IN
                 IF ~inherited.ok THEN inherited
                 ELSE LET r == invoke(frame_value, inherited.val, inherited.m, depth) IN
                      IF ~r.ok THEN r
                      ELSE get_loop(parameter, i + 1, r.val, r.m, depth)
            ELSE get_loop(parameter, i + 1, frame_value, m, depth)

\* get_call without the check of the stack's length
get_call_unchecked(f, m, depth) ==
  LET r == LET looped == get_loop(f.parameter, 1, Undefined, m, depth) IN
           IF ~looped.ok THEN looped
           ELSE IF looped.val = Undefined /\ f.required
           THEN Throw(MissingParameterError(f.parameter, looped.m.stack), looped.m)
           ELSE looped
  IN [r EXCEPT !.m = Emit(@, [e |-> "get", parameter |-> f.parameter,
                              required |-> f.required, stack |-> m.stack,
                              from |-> Len(m.log), after |-> r.m.stack,
                              ok |-> r.ok, val |-> r.val, err |-> r.err])]

\* get_call that takes every parameter to be required
get_call_always_required(f, m, depth) ==
  LET r == IF Len(m.stack) = 0 THEN Throw(ScopeError, m)
           ELSE LET looped == get_loop(f.parameter, 1, Undefined, m, depth) IN
                IF ~looped.ok THEN looped
                ELSE IF looped.val = Undefined
                THEN Throw(MissingParameterError(f.parameter, looped.m.stack), looped.m)
                ELSE looped
  IN [r EXCEPT !.m = Emit(@, [e |-> "get", parameter |-> f.parameter,
                              required |-> f.required, stack |-> m.stack,
                              from |-> Len(m.log), after |-> r.m.stack,
                              ok |-> r.ok, val |-> r.val, err |-> r.err])]

\* the closure returned by get(parameter, required)
get_call(f, m, depth) ==
  LET r == IF Len(m.stack) = 0 THEN Throw(ScopeError, m)
           ELSE LET looped == get_loop(f.parameter, 1, Undefined, m, depth) IN
                IF ~looped.ok THEN looped
                ELSE IF looped.val = Undefined /\ f.required
                THEN Throw(MissingParameterError(f.parameter, looped.m.stack), looped.m)
                ELSE looped
  IN [r EXCEPT !.m = Emit(@, [e |-> "get", parameter |-> f.parameter,
                              required |-> f.required, stack |-> m.stack,
                              from |-> Len(m.log), after |-> r.m.stack,
                              ok |-> r.ok, val |-> r.val, err |-> r.err])]

\* get_evaluated(parameter, required)
get_evaluated(parameter, required, m, depth) ==
  LET r == evaluate(get(parameter, required), m, depth) IN
  [r EXCEPT !.m = Emit(@, [e |-> "get_evaluated", parameter |-> parameter,
                           required |-> required, from |-> Len(m.log),
                           ok |-> r.ok, val |-> r.val, err |-> r.err])]

\* merge_call with the inherited value put after the items
merge_call_inherited_last(f, inherited, m, depth) ==
  LET items == evaluate(Arr(f.items), m, depth) IN
  IF ~items.ok THEN items
  ELSE LET evaluated_items ==
             items.val.items \o (IF inherited # Undefined THEN <<inherited>> ELSE <<>>)
           first_item ==
             IF Len(evaluated_items) = 0 THEN Undefined ELSE evaluated_items[1]
           r == IF typeof(first_item) = "string"
                THEN Return(Str(join(evaluated_items, <<>>)), items.m)
                ELSE IF first_item.t = "array"
                THEN Return(Arr(flat(evaluated_items)), items.m)
                ELSE IF typeof(first_item) = "object"
                THEN IF \E i \in 1..Len(evaluated_items) :
                          evaluated_items[i].t \in {"null", "undefined"}
                     THEN \* Object.entries(null)
                          Throw(TypeError, items.m)
                     ELSE Return(Obj(fromEntries(
                            flat([i \in 1..Len(evaluated_items) |->
                                    Arr(entries(evaluated_items[i]))]), <<>>)), items.m)
                ELSE IF first_item = Undefined
                THEN \* undefined.constructor
                     Throw(TypeError, items.m)
                ELSE Throw(UnsupportedMergeTypeError(constructor_name(first_item)), items.m)
       IN [r EXCEPT !.m = Emit(@, [e |-> "merge", inherited |-> inherited,
                                   items |-> items.val.items,
                                   ok |-> r.ok, val |-> r.val, err |-> r.err])]

\* the closure returned by merge(...items)
merge_call(f, inherited, m, depth) ==
  LET items == evaluate(Arr(f.items), m, depth) IN
  IF ~items.ok THEN items
  ELSE LET evaluated_items ==
             (IF inherited # Undefined THEN <<inherited>> ELSE <<>>) \o items.val.items
           first_item ==
             IF Len(evaluated_items) = 0 THEN Undefined ELSE evaluated_items[1]
           r == IF typeof(first_item) = "string"
                THEN Return(Str(join(evaluated_items, <<>>)), items.m)
                ELSE IF first_item.t = "array"
                THEN Return(Arr(flat(evaluated_items)), items.m)
                ELSE IF typeof(first_item) = "object"
                THEN IF \E i \in 1..Len(evaluated_items) :
                          evaluated_items[i].t \in {"null", "undefined"}
                     THEN \* Object.entries(null)
                          Throw(TypeError, items.m)
                     ELSE Return(Obj(fromEntries(
                            flat([i \in 1..Len(evaluated_items) |->
                                    Arr(entries(evaluated_items[i]))]), <<>>)), items.m)
                ELSE IF first_item = Undefined
                THEN \* undefined.constructor
                     Throw(TypeError, items.m)
                ELSE Throw(UnsupportedMergeTypeError(constructor_name(first_item)), items.m)
       IN [r EXCEPT !.m = Emit(@, [e |-> "merge", inherited |-> inherited,
                                   items |-> items.val.items,
                                   ok |-> r.ok, val |-> r.val, err |-> r.err])]

\* template_loop with the placeholder left unbound
template_loop_placeholder_unbound(f, inherited, p, parts, m, depth) ==
  IF p > Len(f.parameters)
  THEN Return(Str(join(Append(parts, Str(f.strings[Len(f.strings)])), <<>>)), m)
  ELSE LET parameter == f.parameters[p]
           evaluated == IF parameter = "$inherited" THEN Return(Undefined, m)
                        ELSE get_evaluated(parameter, TRUE, m, depth)
       IN IF ~evaluated.ok THEN evaluated
          ELSE template_loop(f, inherited, p + 1,
                 parts \o <<Str(f.strings[p]),
                            IF evaluated.val = Null THEN Str(<<"n", "u", "l", "l">>)
                            ELSE evaluated.val>>,
                 evaluated.m, depth)

\* template_loop without the special case of null
template_loop_null_joined(f, inherited, p, parts, m, depth) ==
  IF p > Len(f.parameters)
  THEN Return(Str(join(Append(parts, Str(f.strings[Len(f.strings)])), <<>>)), m)
  ELSE LET parameter == f.parameters[p]
           evaluated == IF parameter = "$inherited" THEN Return(inherited, m)
                        ELSE get_evaluated(parameter, TRUE, m, depth)
       IN IF ~evaluated.ok THEN evaluated
          ELSE template_loop(f, inherited, p + 1,
                 parts \o <<Str(f.strings[p]), evaluated.val>>,
                 evaluated.m, depth)

\* for (let p = 0; p < parameters.length; ++p) { ... }, p counted from 1
template_loop(f, inherited, p, parts, m, depth) ==
  IF p > Len(f.parameters)
  THEN Return(Str(join(Append(parts, Str(f.strings[Len(f.strings)])), <<>>)), m)
  ELSE LET parameter == f.parameters[p]
           evaluated == IF parameter = "$inherited" THEN Return(inherited, m)
                        ELSE get_evaluated(parameter, TRUE, m, depth)
       IN IF ~evaluated.ok THEN evaluated
          ELSE template_loop(f, inherited, p + 1,
                 parts \o <<Str(f.strings[p]),
                            IF evaluated.val = Null THEN Str(<<"n", "u", "l", "l">>)
                            ELSE evaluated.val>>,
                 evaluated.m, depth)

\* the closure returned by template(strings, ...parameters)
template_call(f, inherited, m, depth) ==
  LET r == template_loop(f, inherited, 1, <<>>, m, depth) IN
  [r EXCEPT !.m = Emit(@, [e |-> "template", strings |-> f.strings,
                           parameters |-> f.parameters, inherited |-> inherited,
                           stack |-> m.stack, from |-> Len(m.log),
                           ok |-> r.ok, val |-> r.val, err |-> r.err])]

\* calling the function value f with one argument (undefined when called with none)
invoke(f, argument, m, depth) ==
  CASE f.fn = "get" -> get_call(f, m, depth)
    [] f.fn = "with" -> with_call(f, m, depth)
    [] f.fn = "wrap" -> Return(with(<<>>, f.value), m)
    [] f.fn = "default" -> default_call(f, argument, m)
    [] f.fn = "merge" -> merge_call(f, argument, m, depth)
    [] f.fn = "template" -> template_call(f, argument, m, depth)
    [] f.fn = "append" -> Return(Str(ToString(argument) \o f.suffix), m)
    [] f.fn = "thunk" -> Return(f.body, m)
    [] f.fn = "thrower" -> Throw(UserError, m)

\* evaluate_array with the elements left as they are
evaluate_array_shallow(items, i, done, m, depth) == Return(Arr(items), m)

\* evaluate_array that leaves out the elements whose forcing fails
evaluate_array_skipping(items, i, done, m, depth) ==
  IF i > Len(items) THEN Return(Arr(done), m)
  ELSE LET r == evaluate(items[i], m, depth) IN
       IF ~r.ok THEN evaluate_array(items, i + 1, done, r.m, depth)
       ELSE evaluate_array(items, i + 1, Append(done, r.val), r.m, depth)

\* value.map(evaluate), from the i-th element on
evaluate_array(items, i, done, m, depth) ==
  IF i > Len(items) THEN Return(Arr(done), m)
  ELSE LET r == evaluate(items[i], m, depth) IN
       IF ~r.ok THEN r
       ELSE evaluate_array(items, i + 1, Append(done, r.val), r.m, depth)

\* evaluate_object with the entries collected from the last to the first
evaluate_object_reversed(list, i, done, m, depth) ==
  IF i > Len(list) THEN Return(Obj(done), m)
  ELSE LET r == evaluate(list[i].v, m, depth) IN
       IF ~r.ok THEN r
       ELSE evaluate_object(list, i + 1, <<Entry(list[i].k, r.val)>> \o done, r.m, depth)

\* Object.fromEntries(Object.entries(value).map(...)), from the i-th entry on
evaluate_object(list, i, done, m, depth) ==
  IF i > Len(list) THEN Return(Obj(done), m)
  ELSE LET r == evaluate(list[i].v, m, depth) IN
       IF ~r.ok THEN r
       ELSE evaluate_object(list, i + 1, Append(done, Entry(list[i].k, r.val)), r.m, depth)

\* evaluate that raises an error of its own where the recursion has no end
evaluate_cycle_checked(value, m, depth) ==
  IF depth = 0 THEN Throw([kind |-> "CycleError"], m)
  ELSE IF IsFunction(value)
  THEN LET r == invoke(value, Undefined, m, depth - 1) IN
       IF ~r.ok THEN r ELSE evaluate(r.val, r.m, depth - 1)
  ELSE IF value.t = "array" THEN evaluate_array(value.items, 1, <<>>, m, depth - 1)
  ELSE IF value.t = "object" THEN evaluate_object(value.entries, 1, <<>>, m, depth - 1)
  ELSE Return(value, m)

\* evaluate(value)
evaluate(value, m, depth) ==
  IF depth = 0 THEN Throw(RangeError, m)
  ELSE IF IsFunction(value)
  THEN LET r == invoke(value, Undefined, m, depth - 1) IN
       IF ~r.ok THEN r ELSE evaluate(r.val, r.m, depth - 1)
  ELSE IF value.t = "array" THEN evaluate_array(value.items, 1, <<>>, m, depth - 1)
  ELSE IF value.t = "object" THEN evaluate_object(value.entries, 1, <<>>, m, depth - 1)
  ELSE Return(value, m)

\* a combinator that forces the value it has built
construct_forced(value, m) == evaluate(value, m, MaxDepth)

\* a combinator (get, with, wrap, wrap_with_defaults, defaults, default,
\* objectify, template, merge) called on an engine: the method returns the
\* value it has built and does nothing else
construct(value, m) == Return(value, m)

(***************************************************************************)
(* What the user builds.  Parameters are "x" and "y"; the trees are nests  *)
(* with(f1, with(f2, ... body)) over frames that bind "x" (or nothing, or  *)
(* "y"), as the tests of src/lib/spogtan.ts build them.                    *)
(***************************************************************************)
a == Str(<<"a">>)
b == Str(<<"b">>)
d == Str(<<"d">>)
z == Str(<<"z">>)
oscar == Str(<<"o", "s", "c", "a", "r">>)
bafta == Str(<<"b", "a", "f", "t", "a">>)
suffix == <<"?", "!">>

\* $.template`${'$inherited'}/${'y'}`
path == template(<<<<>>, <<"/">>, <<>>>>, <<"$inherited", "y">>)

\* entries that overwrite
ConcreteEntries ==
  {a, Null, Num(1), Arr(<<oscar>>), Obj(<<Entry("j", a), Entry("k", Num(1))>>),
   thunk(b), get("y", TRUE),
   with(<<Entry("y", z)>>, get("y", TRUE)), thrower, Undefined}

\* entries that take the inherited value
InheritedOps ==
  {default(d), default(Num(1)), default(Num(2)), default(Null), default(thunk(b)),
   append(<<"+">>),
   merge(<<Str(suffix)>>), merge(<<Arr(<<bafta>>)>>), merge(<<Arr(<<oscar, bafta>>), thunk(Arr(<<oscar>>))>>),
   merge(<<Obj(<<Entry("k", Num(2)), Entry("l", b)>>), thunk(Obj(<<Entry("l", d)>>))>>),
   merge(<<Num(1)>>), merge(<<>>),
   template(<<<<>>, suffix>>, <<"$inherited">>)}

\* the entries of the deep nests
CoreEntries ==
  {a, Null, thunk(b), default(d), append(<<"+">>), merge(<<Str(suffix)>>)}

FramesOf(E) == {<<>>} \cup {<<Entry("x", v)>> : v \in E}

SeqsUpTo(S, n) == UNION {[1..k -> S] : k \in 0..n}

\* the deep nests, over the core entries
DeepLists == SeqsUpTo(FramesOf(CoreEntries), MaxNest)

\* the shallow nests, over every entry
WideLists ==
  SeqsUpTo(FramesOf(ConcreteEntries \cup InheritedOps)
             \cup {<<Entry("y", b)>>, <<Entry("x", path), Entry("y", b)>>}, 2)

Bodies ==
  {get("x", TRUE), get("x", FALSE), Arr(<<get("x", TRUE), get("y", TRUE)>>),
   template(<<<<"<">>, <<">">>>>, <<"x">>),
   template(<<<<"<">>, <<"|">>, <<">">>>>, <<"x", "y">>),
   objectify(<<"x">>, <<Entry("y", get("y", FALSE))>>)}

\* the extra objects the user passes to objectify()
ExtraObjects ==
  {<<>>, <<Entry("y", get("y", FALSE))>>, <<Entry("x", a)>>,
   <<Entry("j", Num(1)), Entry("x", Null)>>}

RECURSIVE Nest(_, _)
\* with(frames[1], with(frames[2], ... body))
Nest(frames, body) ==
  IF Len(frames) = 0 THEN body
  ELSE with(frames[1], Nest(Tail(frames), body))

\* the defaults of a template, the frames it is called with and the frames
\* around the call, as $movie of the example has them
DefaultsFrames == {<<Entry("x", Arr(<<>>))>>, <<Entry("x", d)>>, <<Entry("x", Null)>>}

CallerFrames ==
  FramesOf({a, Arr(<<bafta>>), append(<<"+">>), merge(<<Arr(<<bafta>>)>>),
            merge(<<Str(suffix)>>), path})

OuterLists ==
  SeqsUpTo({<<Entry("x", Arr(<<oscar>>))>>, <<Entry("x", z)>>, <<Entry("y", b)>>}, 1)

\* $.with(outer, $movie(frame)) where $movie = $.wrap_with_defaults(defaults, body)
Movies ==
  {Nest(outer, apply(wrap_with_defaults(defaults_frame, body), frame)) :
     outer \in OuterLists, defaults_frame \in DefaultsFrames,
     frame \in CallerFrames, body \in Bodies}

\* () => ({ array: () => [() => ({ string: 'string' })] }), and a thunk of a thunk
deep ==
  thunk(Obj(<<Entry("array", thunk(Arr(<<thunk(Obj(<<Entry("string", a)>>))>>)))>>))

\* nested sequences and mappings of literals
nested == Arr(<<Arr(<<a, Null, a>>), Obj(<<Entry("k", Num(2)), Entry("j", Arr(<<>>))>>)>>)

\* trees that read no parameter: literals, concrete data and deferred data
DataTrees ==
  {Null, Num(1), a, Arr(<<oscar, bafta, oscar>>),
   Obj(<<Entry("k", Num(2)), Entry("j", Null)>>), nested,
   thunk(thunk(b)), deep,
   Arr(<<thunk(oscar), merge(<<a, b>>), thunk(Arr(<<thunk(bafta), oscar>>)), oscar>>),
   Obj(<<Entry("k", thunk(thunk(Null))), Entry("j", default(d))>>),
   Arr(<<a, thrower>>)}

https == <<"h", "t", "t", "p", "s", ":", "/", "/">>
website == <<"w", "e", "b", "s", "i", "t", "e", ".", "c", "o", "m">>
staging == <<"s", "t", "a", "g", "i", "n", "g", ".">>
movies == <<"m", "o", "v", "i", "e", "s", "/">>

\* $.with({ url: $.template`https://${'domain'}/${'path'}`, path: 'movies/',
\*          prod: $.with({ domain: 'website.com' }, $.get('url')),
\*          staging: $.with({ domain: 'staging.website.com' }, $.get('url')) },
\*        [$.get('prod'), $.get('staging')])
urls ==
  with(<<Entry("url", template(<<https, <<"/">>, <<>>>>, <<"domain", "path">>)),
         Entry("path", Str(movies)),
         Entry("prod", with(<<Entry("domain", Str(website))>>, get("url", TRUE))),
         Entry("staging", with(<<Entry("domain", Str(staging \o website))>>,
                               get("url", TRUE)))>>,
       Arr(<<get("prod", TRUE), get("staging", TRUE)>>))

\* the trees the user evaluates on a stack that holds n frames: on the empty
\* stack every nest, on a stack that a failed call left non-empty a body bare
\* or given one frame, as the template wrap(body) is when called again
\* frames whose entries read, when forced, the parameter they are bound to:
\* directly, through the other parameter, and through a with that pushes
CycleFrames ==
  {<<Entry("x", get("x", TRUE))>>,
   <<Entry("x", get("y", TRUE)), Entry("y", get("x", FALSE))>>,
   <<Entry("x", with(<<>>, get("x", TRUE)))>>}

\* values whose forcing depends on itself
Cycles == {with(frame, get("x", TRUE)) : frame \in CycleFrames}

\* a value set, then bound to undefined, then left alone or set again
Resets ==
  {Nest(<<<<Entry("x", a)>>, <<Entry("x", Undefined)>>, top>>, body) :
     top \in {<<>>, <<Entry("x", default(d))>>, <<Entry("x", b)>>},
     body \in {get("x", TRUE), get("x", FALSE)}}

Trees(n) ==
  {Nest(frames, body) :
     frames \in IF n = 0 THEN DeepLists \cup WideLists
                ELSE {l \in DeepLists : Len(l) <= 1},
     body \in Bodies}
  \cup (IF n = 0 THEN Movies \cup DataTrees \cup {urls} \cup Cycles \cup Resets
        ELSE {})

\* what the user merges when calling merge(...items)(inherited) directly
MergeValues ==
  {Arr(<<oscar>>), Arr(<<bafta, oscar>>), Arr(<<Arr(<<a>>), a>>),
   Obj(<<Entry("j", a), Entry("k", Num(1))>>),
   Obj(<<Entry("k", Num(2)), Entry("l", b)>>),
   a, b, z, Num(1), Bool(TRUE), Null}

MergeItems == MergeValues \cup {thunk(Arr(<<thunk(oscar)>>)), thunk(b)}

MergeItemLists == SeqsUpTo(MergeItems, MaxItems)

(***************************************************************************)
(* The engine and its user                                                 *)
(***************************************************************************)
Idle == [op |-> "none"]
NoOutcome == [ok |-> TRUE, val |-> Undefined, err |-> NoError]

\* new Spogtan(): private stack = []
Init ==
  /\ stack = <<>>
  /\ call = Idle
  /\ outcome = NoOutcome
  /\ log = <<>>

\* the call completes with r: the engine keeps the stack the call left
Complete(op, r) ==
  /\ stack' = r.m.stack
  /\ call' = op
  /\ outcome' = [ok |-> r.ok, val |-> r.val, err |-> r.err]
  /\ log' = r.m.log

\* the user calls evaluate(value); an engine that the runtime's RangeError
\* left holding a frame that reads itself is not called again
EvaluateCall ==
  /\ call = Idle
  /\ Len(stack) <= MaxDirty
  /\ \A i \in 1..Len(stack) : stack[i] \notin CycleFrames
  /\ \E value \in Trees(Len(stack)) :
       Complete([op |-> "evaluate", value |-> value, stack |-> stack],
                evaluate(value, [stack |-> stack, log |-> <<>>], MaxDepth))

\* the user calls $(parameter, required), which is get_evaluated
GetEvaluatedCall ==
  /\ call = Idle
  /\ Len(stack) <= MaxDirty
  /\ \A i \in 1..Len(stack) : stack[i] \notin CycleFrames
  /\ \E parameter \in {"x", "y"}, required \in BOOLEAN :
       Complete([op |-> "get_evaluated", parameter |-> parameter,
                 required |-> required, stack |-> stack],
                get_evaluated(parameter, required,
                              [stack |-> stack, log |-> <<>>], MaxDepth))

\* the user calls merge(...items)(inherited) on values that read no engine
MergeCall ==
  /\ call = Idle
  /\ stack = <<>>
  /\ \E items \in MergeItemLists,
        inherited \in MergeValues \cup {Undefined} :
       Complete([op |-> "merge", items |-> items, inherited |-> inherited,
                 stack |-> stack],
                invoke(merge(items), inherited,
                       [stack |-> stack, log |-> <<>>], MaxDepth))

\* the user calls $.objectify(parameters, extra_object)
ObjectifyCall ==
  /\ call = Idle
  /\ stack = <<>>
  /\ \E parameters \in SeqsUpTo({"x", "y"}, MaxNames), extra_object \in ExtraObjects :
       Complete([op |-> "objectify", parameters |-> parameters,
                 extra_object |-> extra_object, stack |-> stack],
                Return(objectify(parameters, extra_object),
                       [stack |-> stack, log |-> <<>>]))

\* what the user builds by calling one combinator; defaults() returns a
\* frame, which is shown as the object it is
Combinators ==
  {[combinator |-> "get", value |-> get("x", TRUE)],
   [combinator |-> "get", value |-> get("y", FALSE)],
   [combinator |-> "with", value |-> with(<<Entry("x", a)>>, get("x", TRUE))],
   [combinator |-> "with", value |-> with(<<Entry("x", thrower)>>, get("y", TRUE))],
   [combinator |-> "wrap", value |-> wrap(get("x", TRUE))],
   [combinator |-> "wrap_with_defaults",
    value |-> wrap_with_defaults(<<Entry("x", d)>>, get("x", TRUE))],
   [combinator |-> "defaults", value |-> Obj(defaults(<<Entry("x", d), Entry("y", thrower)>>))],
   [combinator |-> "default", value |-> default(d)],
   [combinator |-> "default", value |-> default(thrower)],
   [combinator |-> "objectify", value |-> objectify(<<"x", "y">>, <<>>)],
   [combinator |-> "template", value |-> path],
   [combinator |-> "merge", value |-> merge(<<Arr(<<oscar>>), thrower>>)]}

\* the user calls a combinator of the engine and forces nothing
CombinatorCall ==
  /\ call = Idle
  /\ Len(stack) <= MaxDirty
  /\ \A i \in 1..Len(stack) : stack[i] \notin CycleFrames
  /\ \E built \in Combinators :
       Complete([op |-> "construct", combinator |-> built.combinator,
                 value |-> built.value, stack |-> stack],
                construct(built.value, [stack |-> stack, log |-> <<>>]))

\* the user takes the result, or catches the error, and goes on
Continue ==
  /\ call # Idle
  /\ call' = Idle
  /\ outcome' = NoOutcome
  /\ log' = <<>>
  /\ UNCHANGED stack

\* the user drops the engine and constructs a new one
Construct ==
  /\ call = Idle
  /\ stack # <<>>
  /\ stack' = <<>>
  /\ UNCHANGED <<call, outcome, log>>

Next ==
  \/ EvaluateCall
  \/ GetEvaluatedCall
  \/ MergeCall
  \/ ObjectifyCall
  \/ CombinatorCall
  \/ Continue
  \/ Construct

Spec == Init /\ [][Next]_vars

(***************************************************************************)
(* Vocabulary of the properties                                            *)
(***************************************************************************)
\* the get-forces and the merge-forces of the last call
Gets == {log[i] : i \in {j \in 1..Len(log) : log[j].e = "get"}}
Merges == {log[i] : i \in {j \in 1..Len(log) : log[j].e = "merge"}}
Withs == {log[i] : i \in {j \in 1..Len(log) : log[j].e = "with"}}

IsInheritedOp(entry) == IsFunction(entry) /\ entry.length = 1

\* the positions of the frames of stk that define parameter, bottom to top
Definers(stk, parameter) == {i \in 1..Len(stk) : In(parameter, stk[i])}

\* the largest element of a non-empty set of numbers
Max(S) == CHOOSE n \in S : \A k \in S : k <= n

\* the entries that the frames of stk hold for parameter, bottom to top
RECURSIVE EntriesFor(_, _)
EntriesFor(stk, parameter) ==
  IF Len(stk) = 0 THEN <<>>
  ELSE LET below == EntriesFor(SubSeq(stk, 1, Len(stk) - 1), parameter)
           top == stk[Len(stk)]
       IN IF In(parameter, top) THEN Append(below, Lookup(top, parameter)) ELSE below

\* the frames of the nest with(f1, with(f2, ... body)), outermost first, and its body
RECURSIVE Frames(_), Body(_)
Frames(tree) ==
  IF IsFunction(tree) /\ tree.fn = "with"
  THEN <<tree.frame>> \o Frames(tree.value)
  ELSE <<>>
Body(tree) ==
  IF IsFunction(tree) /\ tree.fn = "with" THEN Body(tree.value) ELSE tree

\* value holds no function at any depth
RECURSIVE IsConcrete(_)
IsConcrete(value) ==
  CASE value.t = "function" -> FALSE
    [] value.t = "array" -> \A i \in 1..Len(value.items) : IsConcrete(value.items[i])
    [] value.t = "object" ->
         \A i \in 1..Len(value.entries) : IsConcrete(value.entries[i].v)
    [] OTHER -> TRUE

\* the numbers of S in increasing order
RECURSIVE Ascending(_)
Ascending(S) ==
  IF S = {} THEN <<>>
  ELSE LET least == CHOOSE n \in S : \A k \in S : n <= k IN
       <<least>> \o Ascending(S \ {least})

\* how a completion shows to its caller
Shown(r) == [ok |-> r.ok, val |-> r.val, err |-> r.err]
ShownEvent(g) == [ok |-> g.ok, val |-> g.val, err |-> g.err]

(***************************************************************************)
(* C1 - Overwrite law: when every frame on the stack that defines the      *)
(* parameter holds a concrete entry (not an InheritedOp) for it, forcing   *)
(* get returns exactly the entry of the innermost frame that defines it,   *)
(* whatever the outer frames hold.  (The innermost entry is a value: a     *)
(* key bound to undefined is the case of C28.)                             *)
(***************************************************************************)
OverwriteLaw ==
  \A g \in Gets :
    LET ds == Definers(g.stack, g.parameter) IN
    (/\ ds # {}
     /\ \A i \in ds : ~IsInheritedOp(Lookup(g.stack[i], g.parameter))
     /\ Lookup(g.stack[Max(ds)], g.parameter) # Undefined)
    => /\ g.ok
       /\ g.val = Lookup(g.stack[Max(ds)], g.parameter)

\* a get resolved over three concrete definitions, the innermost unlike the others
OverwriteLawWitness ==
  \E g \in Gets :
    LET ds == Definers(g.stack, g.parameter) IN
    /\ Cardinality(ds) = 3
    /\ \A i \in ds : ~IsInheritedOp(Lookup(g.stack[i], g.parameter))
    /\ \A i \in ds \ {Max(ds)} :
         Lookup(g.stack[i], g.parameter) # Lookup(g.stack[Max(ds)], g.parameter)
    /\ g.ok
    /\ g.val = Lookup(g.stack[Max(ds)], g.parameter)
    /\ g.val # Undefined

(***************************************************************************)
(* C2 - Inherited-op fold: when the frames F1..Fn that define the          *)
(* parameter (bottom to top) all hold an InheritedOp for it, forcing get   *)
(* equals the left fold Fn(...F2(F1(unset))...): F1 receives unset and     *)
(* every later op the fully evaluated result of the step before it.        *)
(***************************************************************************)
RECURSIVE ApplyOps(_, _, _)
\* ops[n](...ops[1](base)...) on the stack stk, each result fully evaluated
\* before it is handed to the next op
ApplyOps(ops, base, stk) ==
  IF Len(ops) = 0 THEN Return(base, [stack |-> stk, log |-> <<>>])
  ELSE LET before == ApplyOps(SubSeq(ops, 1, Len(ops) - 1), base, stk) IN
       IF ~before.ok THEN before
       ELSE LET forced == evaluate(before.val, [stack |-> stk, log |-> <<>>], MaxDepth) IN
            IF ~forced.ok THEN forced
            ELSE invoke(ops[Len(ops)], forced.val, [stack |-> stk, log |-> <<>>], MaxDepth)

\* the completion of a get over a resolution that completed as r
Required(g, r) ==
  IF r.ok /\ r.val = Undefined /\ g.required
  THEN [ok |-> FALSE, val |-> Undefined,
        err |-> MissingParameterError(g.parameter, g.stack)]
  ELSE Shown(r)

InheritedOpFold ==
  \A g \in Gets :
    LET ops == EntriesFor(g.stack, g.parameter) IN
    (Len(ops) > 0 /\ \A i \in 1..Len(ops) : IsInheritedOp(ops[i]))
    => ShownEvent(g) = Required(g, ApplyOps(ops, Undefined, g.stack))

\* a get resolved through three different InheritedOps, the lower ones setting a value
InheritedOpFoldWitness ==
  \E g \in Gets :
    LET ops == EntriesFor(g.stack, g.parameter) IN
    /\ Len(ops) = 3
    /\ \A i \in 1..3 : IsInheritedOp(ops[i])
    /\ ops[1] # ops[2] /\ ops[2] # ops[3] /\ ops[1] # ops[3]
    /\ g.ok
    /\ g.val = ApplyOps(ops, Undefined, g.stack).val
    /\ g.val # ApplyOps(<<ops[3]>>, Undefined, g.stack).val
    /\ g.val # ApplyOps(<<ops[2], ops[3]>>, Undefined, g.stack).val

(***************************************************************************)
(* C3 - Mixed frames: get scans the frames from the oldest-pushed to the   *)
(* most-recently-pushed; a concrete entry replaces whatever was            *)
(* accumulated and an InheritedOp is applied to the fully forced           *)
(* accumulated value.  As claimed, the result therefore equals the         *)
(* InheritedOps of the frames above the topmost concrete definition        *)
(* applied in push order to that concrete entry (or to unset if there is   *)
(* none): MixedFrames.  That fails where an InheritedOp below the topmost  *)
(* concrete definition throws.  MixedFramesBelowCompleting is the claim    *)
(* with that case stated: the InheritedOps below the topmost concrete      *)
(* definition are still run, and if running them fails get fails with      *)
(* their error; otherwise the result is as claimed.                        *)
(***************************************************************************)
\* the positions of the concrete entries among es
Concretes(es) == {i \in 1..Len(es) : ~IsInheritedOp(es[i])}

\* the InheritedOps above the topmost concrete entry of es applied to it
AboveTopmostConcrete(es, stk) ==
  IF Concretes(es) = {} THEN ApplyOps(es, Undefined, stk)
  ELSE LET c == Max(Concretes(es)) IN
       ApplyOps(SubSeq(es, c + 1, Len(es)), es[c], stk)

RECURSIVE BelowCompleting(_, _)
\* the same, once the entries below the topmost concrete one have been run
BelowCompleting(es, stk) ==
  IF Concretes(es) = {} THEN ApplyOps(es, Undefined, stk)
  ELSE LET c == Max(Concretes(es))
           below == BelowCompleting(SubSeq(es, 1, c - 1), stk)
       IN IF ~below.ok THEN below
          ELSE ApplyOps(SubSeq(es, c + 1, Len(es)), es[c], stk)

MixedFrames ==
  \A g \in Gets :
    Len(g.stack) > 0
    => ShownEvent(g) =
         Required(g, AboveTopmostConcrete(EntriesFor(g.stack, g.parameter), g.stack))

MixedFramesBelowCompleting ==
  \A g \in Gets :
    Len(g.stack) > 0
    => ShownEvent(g) =
         Required(g, BelowCompleting(EntriesFor(g.stack, g.parameter), g.stack))

\* a get resolved over an InheritedOp, a concrete entry above it and an
\* InheritedOp above that, whose result is the top op applied to the entry
MixedFramesWitness ==
  \E g \in Gets :
    LET es == EntriesFor(g.stack, g.parameter) IN
    /\ Len(es) = 3
    /\ IsInheritedOp(es[1]) /\ ~IsInheritedOp(es[2]) /\ IsInheritedOp(es[3])
    /\ g.ok
    /\ g.val = ApplyOps(<<es[3]>>, es[2], g.stack).val
    /\ g.val # es[2]
    /\ g.val # ApplyOps(<<es[1], es[3]>>, Undefined, g.stack).val

(***************************************************************************)
(* C4 - Default precedence: default(x) yields x only when no frame         *)
(* processed earlier in the scan has established a value (otherwise it     *)
(* passes the established value on), and a concrete entry in a later frame *)
(* overrides it.  With {x: default(1)} pushed first and {x: default(2)}    *)
(* second, get(x) resolves to 1.                                           *)
(***************************************************************************)
IsDefault(entry) == IsFunction(entry) /\ entry.fn = "default"

\* what the frames below the topmost definition establish, fully forced
Established(es, stk) ==
  LET below == BelowCompleting(SubSeq(es, 1, Len(es) - 1), stk) IN
  IF ~below.ok THEN below
  ELSE evaluate(below.val, [stack |-> stk, log |-> <<>>], MaxDepth)

DefaultScenario ==
  Nest(<<<<Entry("x", default(Num(1)))>>, <<Entry("x", default(Num(2)))>>>>,
       get("x", TRUE))

DefaultPrecedence ==
  /\ \A g \in Gets :
       LET es == EntriesFor(g.stack, g.parameter)
           top == es[Len(es)]
       IN (Len(es) > 0 /\ Established(es, g.stack).ok)
          => /\ IsDefault(top)
                => ShownEvent(g) =
                     Required(g, Return(IF Established(es, g.stack).val = Undefined
                                        THEN top.value
                                        ELSE Established(es, g.stack).val, <<>>))
             /\ (/\ ~IsInheritedOp(top)
                 /\ top # Undefined
                 /\ \E i \in 1..Len(es) - 1 : IsDefault(es[i]))
                => g.ok /\ g.val = top
  /\ (call.op = "evaluate" /\ call.value = DefaultScenario /\ call.stack = <<>>)
     => outcome.ok /\ outcome.val = Num(1)

\* the scenario has run: the outer default(1) won over the inner default(2)
DefaultPrecedenceWitness ==
  /\ call.op = "evaluate"
  /\ call.value = DefaultScenario
  /\ outcome.val = Num(1)
  /\ \E g \in Gets : EntriesFor(g.stack, g.parameter) = <<default(Num(1)), default(Num(2))>>

(***************************************************************************)
(* C5 - Guaranteed pop on failure: when forcing with(frame, tree) fails    *)
(* while tree is evaluated, the frame that with pushed is popped before    *)
(* the failure reaches the caller: the stack after the failed force is     *)
(* the stack before it.                                                    *)
(***************************************************************************)
PopOnFailure ==
  \A w \in Withs : ~w.ok => w.after = w.before

(***************************************************************************)
(* C6 - Template isolation: a call t(f) of a wrap-produced template, which *)
(* is with(f, tree), leaves the stack as deep as it found it, and a get    *)
(* forced during the call sees no frame of an earlier call.                *)
(***************************************************************************)
TemplateIsolation ==
  (/\ call.op = "evaluate"
   /\ IsFunction(call.value)
   /\ call.value.fn = "with"
   /\ call.value = apply(wrap(call.value.value), call.value.frame))
  => /\ Len(stack) = Len(call.stack)
     /\ \A g \in Gets : Len(call.stack) = 0

(***************************************************************************)
(* C7 - ScopeError: forcing get(p), get_evaluated(p) or a template that    *)
(* names a parameter while the stack is empty fails with the scope error,  *)
(* for every parameter, required or not.                                   *)
(***************************************************************************)
ScopeErrorOnEmptyStack ==
  /\ \A g \in Gets : g.stack = <<>> => ~g.ok /\ g.err = ScopeError
  /\ (call.op = "get_evaluated" /\ call.stack = <<>>)
     => ~outcome.ok /\ outcome.err = ScopeError
  /\ (/\ call.op = "evaluate"
      /\ call.stack = <<>>
      /\ call.value \in {get("x", TRUE), get("x", FALSE),
                          template(<<<<"<">>, <<">">>>>, <<"x">>)})
     => ~outcome.ok /\ outcome.err = ScopeError

\* a parameter that is not required was read on the empty stack
ScopeErrorWitness ==
  /\ call.op = "get_evaluated"
  /\ ~call.required
  /\ call.stack = <<>>
  /\ outcome.err = ScopeError
  /\ \E g \in Gets : g.stack = <<>> /\ ~g.required /\ ~g.ok

(***************************************************************************)
(* C8 - Missing parameter: on a non-empty stack, forcing get(p, required)  *)
(* fails with the missing-parameter error for p if and only if required is *)
(* true and the fold over the frames leaves the value unset; when required *)
(* is false and the value is unset it returns unset, and evaluate yields   *)
(* unset for that field.                                                   *)
(***************************************************************************)
IsMissing(g) ==
  /\ ~g.ok
  /\ g.err.kind = "MissingParameterError"
  /\ g.err.parameter = g.parameter

MissingParameter ==
  /\ \A g \in Gets :
       LET fold == BelowCompleting(EntriesFor(g.stack, g.parameter), g.stack)
           unset == fold.ok /\ fold.val = Undefined
       IN Len(g.stack) > 0
          => /\ IsMissing(g) <=> (g.required /\ unset)
             /\ IsMissing(g) => g.err = MissingParameterError(g.parameter, g.stack)
             /\ (~g.required /\ unset) => g.ok /\ g.val = Undefined
  /\ (/\ call.op = "evaluate"
      /\ call.stack = <<>>
      /\ Body(call.value) = Obj(<<Entry("x", get("x", TRUE)),
                                  Entry("y", get("y", FALSE))>>)
      /\ outcome.ok
      /\ \A i \in 1..Len(Frames(call.value)) : ~In("y", Frames(call.value)[i]))
     => outcome.val.entries[2] = Entry("y", Undefined)

\* an object was evaluated whose field y, not required and set by no frame, is unset
MissingParameterWitness ==
  /\ call.op = "evaluate"
  /\ outcome.ok
  /\ outcome.val.t = "object"
  /\ Len(outcome.val.entries) = 2
  /\ outcome.val.entries[2] = Entry("y", Undefined)
  /\ \E g \in Gets :
       /\ g.parameter = "y" /\ ~g.required /\ Len(g.stack) > 0
       /\ Definers(g.stack, "y") = {}
       /\ g.ok /\ g.val = Undefined

(***************************************************************************)
(* C9 - Merge on sequences: when the first element (the inherited value if *)
(* it is not unset, otherwise the first evaluated item) is a sequence,     *)
(* merge returns the one-level concatenation of inherited followed by the  *)
(* items in source order, keeping element order and duplicates (an element *)
(* that is no sequence is concatenated as itself).  Above                  *)
(* {awards: ['oscar']}, merge(['bafta']) resolves to ['oscar', 'bafta'].   *)
(***************************************************************************)
\* what a merge combines: the inherited value, if set, then the evaluated items
Sources(e) ==
  (IF e.inherited # Undefined THEN <<e.inherited>> ELSE <<>>) \o e.items

RECURSIVE Concatenation(_)
Concatenation(list) ==
  IF Len(list) = 0 THEN <<>>
  ELSE LET last == list[Len(list)] IN
       Concatenation(SubSeq(list, 1, Len(list) - 1))
         \o (IF last.t = "array" THEN last.items ELSE <<last>>)

AwardsScenario ==
  Nest(<<<<Entry("x", Arr(<<oscar>>))>>, <<Entry("x", merge(<<Arr(<<bafta>>)>>))>>>>,
       get("x", TRUE))

MergeSequences ==
  /\ \A e \in Merges :
       (Len(Sources(e)) > 0 /\ Sources(e)[1].t = "array")
       => e.ok /\ e.val = Arr(Concatenation(Sources(e)))
  /\ (call.op = "evaluate" /\ call.value = AwardsScenario /\ call.stack = <<>>)
     => outcome.ok /\ outcome.val = Arr(<<oscar, bafta>>)

\* an inherited sequence was merged with a sequence that repeats its element
MergeSequencesWitness ==
  \E e \in Merges :
    /\ e.inherited = Arr(<<oscar>>)
    /\ e.items = <<Arr(<<bafta, oscar>>)>>
    /\ e.ok
    /\ e.val = Arr(<<oscar, bafta, oscar>>)

(***************************************************************************)
(* C10 - Merge on mappings: when the first element is a mapping (and so    *)
(* are the other sources), merge returns the union of the entries of       *)
(* inherited (if set) and the items, and a key present in several sources  *)
(* holds the value of the last source that contains it, inherited being    *)
(* the earliest source.                                                    *)
(***************************************************************************)
Keys(object) == {object.entries[i].k : i \in 1..Len(object.entries)}

\* the last of the sources that contains key
LastWith(sources, key) ==
  sources[Max({i \in 1..Len(sources) : key \in Keys(sources[i])})]

MergeMappings ==
  \A e \in Merges :
    (Len(Sources(e)) > 0 /\ \A i \in 1..Len(Sources(e)) : Sources(e)[i].t = "object")
    => /\ e.ok
       /\ e.val.t = "object"
       /\ Keys(e.val) = UNION {Keys(Sources(e)[i]) : i \in 1..Len(Sources(e))}
       /\ Cardinality(Keys(e.val)) = Len(e.val.entries)
       /\ \A key \in Keys(e.val) :
            Lookup(e.val.entries, key) = Lookup(LastWith(Sources(e), key).entries, key)

\* three mappings were merged, a key of the inherited one being set anew by an
\* item and a key of that item by a later item
MergeMappingsWitness ==
  \E e \in Merges :
    /\ e.inherited # Undefined
    /\ Len(e.items) = 2
    /\ \A i \in 1..3 : Sources(e)[i].t = "object"
    /\ \E key \in Keys(e.inherited) \cap Keys(e.items[1]) :
         /\ Lookup(e.inherited.entries, key) # Lookup(e.items[1].entries, key)
         /\ key \notin Keys(e.items[2])
         /\ Lookup(e.val.entries, key) = Lookup(e.items[1].entries, key)
    /\ \E key \in Keys(e.items[1]) \cap Keys(e.items[2]) :
         /\ Lookup(e.items[1].entries, key) # Lookup(e.items[2].entries, key)
         /\ Lookup(e.val.entries, key) = Lookup(e.items[2].entries, key)
    /\ e.ok

(***************************************************************************)
(* C11 - Merge on text: when the first element is textual, merge returns   *)
(* text, and where the sources are all textual that text is the            *)
(* concatenation, without separator, of inherited (only if it is not       *)
(* unset) followed by the evaluated items in order.  merge('a', 'b')       *)
(* forced with no inherited value gives 'ab', and with inherited 'z' it    *)
(* gives 'zab'.                                                            *)
(***************************************************************************)
RECURSIVE ConcatText(_)
\* the characters of the strings of list, in order
ConcatText(list) ==
  IF Len(list) = 0 THEN <<>> ELSE list[1].s \o ConcatText(Tail(list))

MergeText ==
  /\ \A e \in Merges :
       (Len(Sources(e)) > 0 /\ Sources(e)[1].t = "string")
       => /\ e.ok
          /\ e.val.t = "string"
          /\ (\A i \in 1..Len(Sources(e)) : Sources(e)[i].t = "string")
             => e.val = Str(ConcatText(Sources(e)))
  /\ (call.op = "merge" /\ call.items = <<a, b>> /\ call.inherited = Undefined)
     => outcome.ok /\ outcome.val = Str(<<"a", "b">>)
  /\ (call.op = "merge" /\ call.items = <<a, b>> /\ call.inherited = z)
     => outcome.ok /\ outcome.val = Str(<<"z", "a", "b">>)

\* merge('a', 'b') was forced with the inherited value 'z'
MergeTextWitness ==
  /\ call.op = "merge"
  /\ call.items = <<a, b>>
  /\ call.inherited = z
  /\ outcome.val = Str(<<"z", "a", "b">>)
  /\ \E e \in Merges : e.inherited = z /\ e.items = <<a, b>> /\ e.ok

(***************************************************************************)
(* C12 - Unsupported merge type: whenever the first element of merge's     *)
(* list (the inherited value if it is not unset, otherwise the first       *)
(* evaluated item) is a number, a boolean or null, forcing merge fails     *)
(* with the unsupported-merge-type error, which names the type of that     *)
(* element: it neither returns nor fails in another way.                   *)
(***************************************************************************)
UnsupportedMergeType ==
  \A e \in Merges :
    (Len(Sources(e)) > 0 /\ Sources(e)[1].t \in {"number", "boolean", "null"})
    => /\ ~e.ok
       /\ e.err.kind = "UnsupportedMergeTypeError"
       /\ Sources(e)[1].t = "number" => e.err.type = "Number"
       /\ Sources(e)[1].t = "boolean" => e.err.type = "Boolean"

(***************************************************************************)
(* C13 - Template rendering: forcing template(fragments, refs) returns     *)
(* fragments[0] + v1 + fragments[1] + ... + vn + fragments[n], where vi is *)
(* the fully evaluated value of ref i; each ref is resolved exactly once,  *)
(* in order, and a ref whose value is null contributes the text "null".    *)
(* (A force that fails does so with the error of the ref it stopped at.)   *)
(***************************************************************************)
\* the positions in the log of the template-forces
Templates == {k \in 1..Len(log) : log[k].e = "template"}

\* the positions of the get_evaluated calls that the template-force at k made
\* itself, in order: those of its span that lie in no other call's span
Resolutions(k) ==
  Ascending({j \in (log[k].from + 1)..(k - 1) :
               /\ log[j].e = "get_evaluated"
               /\ \A i \in (j + 1)..(k - 1) :
                    log[i].e = "get_evaluated" => log[i].from >= j})

\* the refs that name a parameter
NamedRefs(parameters) == SelectSeq(parameters, LAMBDA q : q # "$inherited")

\* the value of each ref: the inherited one for the placeholder, the next
\* resolved one for a name
RECURSIVE RefValues(_, _, _)
RefValues(parameters, inherited, resolved) ==
  IF Len(parameters) = 0 THEN <<>>
  ELSE IF parameters[1] = "$inherited"
  THEN <<inherited>> \o RefValues(Tail(parameters), inherited, resolved)
  ELSE <<resolved[1]>> \o RefValues(Tail(parameters), inherited, Tail(resolved))

\* the text a value contributes
Rendered(value) ==
  IF value = Null THEN <<"n", "u", "l", "l">> ELSE ToString(value)

\* fragments[0] + v1 + fragments[1] + ... + vn + fragments[n]
RECURSIVE Interleave(_, _)
Interleave(strings, values) ==
  IF Len(values) = 0 THEN strings[1]
  ELSE strings[1] \o Rendered(values[1]) \o Interleave(Tail(strings), Tail(values))

TemplateRendering ==
  \A k \in Templates :
    LET t == log[k]
        res == Resolutions(k)
        named == NamedRefs(t.parameters)
        values == RefValues(t.parameters, t.inherited,
                            [i \in 1..Len(res) |-> log[res[i]].val])
    IN /\ Len(res) <= Len(named)
       /\ \A i \in 1..Len(res) :
            /\ log[res[i]].parameter = named[i]
            /\ log[res[i]].required
            /\ i < Len(res) => log[res[i]].ok
            /\ ShownEvent(log[res[i]]) =
                 Shown(get_evaluated(named[i], TRUE,
                                     [stack |-> t.stack, log |-> <<>>], MaxDepth))
            /\ log[res[i]].ok => IsConcrete(log[res[i]].val)
       /\ t.ok =>
            /\ Len(res) = Len(named)
            /\ \A i \in 1..Len(res) : log[res[i]].ok
            /\ (\A i \in 1..Len(values) : values[i] # Undefined)
               => t.val = Str(Interleave(t.strings, values))
       /\ ~t.ok =>
            /\ Len(res) > 0
            /\ ~log[res[Len(res)]].ok
            /\ t.err = log[res[Len(res)]].err

\* a template of two refs was forced where the first is null
TemplateRenderingWitness ==
  \E k \in Templates :
    /\ log[k].parameters = <<"x", "y">>
    /\ log[k].ok
    /\ Len(Resolutions(k)) = 2
    /\ log[Resolutions(k)[1]].val = Null
    /\ log[k].val = Str(<<"<", "n", "u", "l", "l", "|", "b", ">">>)

(***************************************************************************)
(* C14 - Template inherited placeholder: when the innermost frame that     *)
(* defines p holds for it a template containing the inherited placeholder, *)
(* get treats the template as an InheritedOp: the placeholder renders the  *)
(* fully forced value that the frames below produced for p (null as        *)
(* "null"), and the refs that name a parameter are resolved through        *)
(* get_evaluated against the stack at force time.                          *)
(***************************************************************************)
HasPlaceholder(entry) ==
  /\ IsFunction(entry)
  /\ entry.fn = "template"
  /\ \E i \in 1..Len(entry.parameters) : entry.parameters[i] = "$inherited"

\* the named refs of a template resolved on the stack stk, in order
ResolvedOn(entry, stk) ==
  [i \in 1..Len(NamedRefs(entry.parameters)) |->
     get_evaluated(NamedRefs(entry.parameters)[i], TRUE,
                   [stack |-> stk, log |-> <<>>], MaxDepth)]

InheritedPlaceholder ==
  \A g \in Gets :
    LET es == EntriesFor(g.stack, g.parameter)
        top == es[Len(es)]
        below == Established(es, g.stack)
        refs == ResolvedOn(top, g.stack)
        failed == {i \in 1..Len(refs) : ~refs[i].ok}
    IN (/\ Len(es) > 0
        /\ HasPlaceholder(top)
        /\ below.ok
        /\ below.val # Undefined)
       => /\ IsInheritedOp(top)
          /\ failed = {}
             => /\ g.ok
                /\ g.val = Str(Interleave(top.strings,
                                  RefValues(top.parameters, below.val,
                                            [i \in 1..Len(refs) |-> refs[i].val])))
          /\ failed # {}
             => /\ ~g.ok
                /\ g.err = refs[CHOOSE i \in failed : \A j \in failed : i <= j].err

\* an inherited null was rendered next to a parameter of the template's own frame
InheritedPlaceholderWitness ==
  \E g \in Gets :
    /\ g.parameter = "x"
    /\ EntriesFor(g.stack, "x") = <<Null, path>>
    /\ Definers(g.stack, "y") = {Len(g.stack)}
    /\ g.ok
    /\ g.val = Str(<<"n", "u", "l", "l", "/", "b">>)

(***************************************************************************)
(* C15 - wrap_with_defaults ordering: forcing                              *)
(* wrap_with_defaults(defaults, tree)(frame) performs exactly two nested   *)
(* pushes.  As claimed, the defaults frame is pushed first and the         *)
(* caller's frame on top of it, so that an InheritedOp of the caller's     *)
(* frame receives the default when no outer frame sets the parameter:      *)
(* DefaultsFrameFirst.  The code pushes them the other way round.          *)
(* CallerFrameFirst is the claim with the order as it is: the caller's     *)
(* frame is pushed first and the defaults frame on top of it, tree is      *)
(* evaluated with the defaults frame above the caller's frame, and an      *)
(* InheritedOp of the caller's frame receives unset when no outer frame    *)
(* sets the parameter, its result passing through the default.             *)
(***************************************************************************)
\* the pushes of the last call, in order
Pushes == SelectSeq(log, LAMBDA event : event.e = "push")

\* the last call evaluated, on a new engine, the call frame of the template
\* wrap_with_defaults(defaults_frame, body) inside the frames outer
IsMovieCall(outer, defaults_frame, frame, body) ==
  /\ call.op = "evaluate"
  /\ call.stack = <<>>
  /\ Len(Frames(call.value)) = Len(outer) + 2
  /\ call.value = Nest(outer, apply(wrap_with_defaults(defaults_frame, body), frame))

\* the frames around the two innermost frames of the tree of the last call
Around ==
  IF call.op = "evaluate" /\ Len(Frames(call.value)) >= 2
  THEN SubSeq(Frames(call.value), 1, Len(Frames(call.value)) - 2)
  ELSE <<>>

\* frame holds an InheritedOp for the parameter, which no frame of outer sets
CallerOpOnly(outer, frame, parameter) ==
  /\ In(parameter, frame)
  /\ IsInheritedOp(Lookup(frame, parameter))
  /\ Definers(outer, parameter) = {}

DefaultsFrameFirst ==
  \A defaults_frame \in DefaultsFrames, frame \in CallerFrames :
    LET outer == Around
        body == Body(call.value)
    IN
    IsMovieCall(outer, defaults_frame, frame, body) =>
      LET n == Len(outer) IN
      /\ Len(Pushes) = n + 2
      /\ Pushes[n + 1].frame = defaults(defaults_frame) /\ Pushes[n + 1].depth = n + 1
      /\ Pushes[n + 2].frame = frame /\ Pushes[n + 2].depth = n + 2
      /\ \A g \in Gets :
           /\ g.stack = outer \o <<defaults(defaults_frame), frame>>
           /\ (CallerOpOnly(outer, frame, g.parameter) /\ In(g.parameter, defaults_frame))
              => ShownEvent(g) =
                   Required(g, ApplyOps(<<default(Lookup(defaults_frame, g.parameter)),
                                          Lookup(frame, g.parameter)>>,
                                        Undefined, g.stack))

CallerFrameFirst ==
  \A defaults_frame \in DefaultsFrames, frame \in CallerFrames :
    LET outer == Around
        body == Body(call.value)
    IN
    IsMovieCall(outer, defaults_frame, frame, body) =>
      LET n == Len(outer) IN
      /\ Len(Pushes) = n + 2
      /\ Pushes[n + 1].frame = frame /\ Pushes[n + 1].depth = n + 1
      /\ Pushes[n + 2].frame = defaults(defaults_frame) /\ Pushes[n + 2].depth = n + 2
      /\ \A g \in Gets :
           /\ g.stack = outer \o <<frame, defaults(defaults_frame)>>
           /\ (CallerOpOnly(outer, frame, g.parameter) /\ In(g.parameter, defaults_frame))
              => ShownEvent(g) =
                   Required(g, ApplyOps(<<Lookup(frame, g.parameter),
                                          default(Lookup(defaults_frame, g.parameter))>>,
                                        Undefined, g.stack))

\* a template with the default 'd' was called with a frame that appends '+':
\* the op received unset, not the default
CallerFrameFirstWitness ==
  /\ IsMovieCall(<<>>, <<Entry("x", d)>>, <<Entry("x", append(<<"+">>))>>, get("x", TRUE))
  /\ Len(Pushes) = 2
  /\ outcome.ok
  /\ outcome.val = Str(ToString(Undefined) \o <<"+">>)
  /\ outcome.val # Str(<<"d", "+">>)

(***************************************************************************)
(* C16 - wrap_with_defaults precedence: a parameter read by the tree of a  *)
(* template built with wrap_with_defaults resolves to its default when     *)
(* neither the caller's frame nor an enclosing frame sets it; a concrete   *)
(* value of the caller's frame wins over an enclosing frame's value, an    *)
(* enclosing frame's value wins over the default, and a merge in the       *)
(* caller's frame appends to the enclosing frame's value.  Around awards   *)
(* ['oscar'], a caller's merge(['bafta']) gives ['oscar', 'bafta'] and no  *)
(* caller's awards gives ['oscar']; no awards anywhere gives the default   *)
(* [].  (The values of the enclosing frames are concrete data.)            *)
(***************************************************************************)
\* what the innermost frame of outer that sets parameter holds for it
Enclosing(outer, parameter) ==
  Lookup(outer[Max(Definers(outer, parameter))], parameter)

IsMerge(entry) == IsFunction(entry) /\ entry.fn = "merge"

Awards(outer, frame) ==
  Nest(outer, apply(wrap_with_defaults(<<Entry("x", Arr(<<>>))>>, get("x", TRUE)), frame))

DefaultsPrecedence ==
  /\ \A defaults_frame \in DefaultsFrames, frame \in CallerFrames :
       LET outer == Around
           enclosed == Definers(outer, "x") # {}
       IN (/\ IsMovieCall(outer, defaults_frame, frame, Body(call.value))
           /\ \A i \in Definers(outer, "x") : IsConcrete(Lookup(outer[i], "x")))
          =>
            \A g \in Gets :
              g.parameter = "x" =>
                /\ (~In("x", frame) /\ ~enclosed)
                   => g.ok /\ g.val = Lookup(defaults_frame, "x")
                /\ (In("x", frame) /\ IsConcrete(Lookup(frame, "x")))
                   => g.ok /\ g.val = Lookup(frame, "x")
                /\ (~In("x", frame) /\ enclosed)
                   => g.ok /\ g.val = Enclosing(outer, "x")
                /\ (/\ In("x", frame) /\ IsMerge(Lookup(frame, "x")) /\ enclosed
                    /\ Enclosing(outer, "x").t = "array")
                   => /\ g.ok
                      /\ g.val = Arr(Enclosing(outer, "x").items
                                       \o Concatenation(Lookup(frame, "x").items))
  /\ (call.op = "evaluate" /\ call.stack = <<>>) =>
       /\ call.value = Awards(<<<<Entry("x", Arr(<<oscar>>))>>>>,
                              <<Entry("x", merge(<<Arr(<<bafta>>)>>))>>)
          => outcome.ok /\ outcome.val = Arr(<<oscar, bafta>>)
       /\ call.value = Awards(<<<<Entry("x", Arr(<<oscar>>))>>>>, <<>>)
          => outcome.ok /\ outcome.val = Arr(<<oscar>>)
       /\ call.value = Awards(<<>>, <<>>)
          => outcome.ok /\ outcome.val = Arr(<<>>)

\* the template with the default [] was called with merge(['bafta']) inside
\* a frame that sets ['oscar']
DefaultsPrecedenceWitness ==
  /\ call.op = "evaluate"
  /\ call.stack = <<>>
  /\ call.value = Awards(<<<<Entry("x", Arr(<<oscar>>))>>>>,
                         <<Entry("x", merge(<<Arr(<<bafta>>)>>))>>)
  /\ outcome.val = Arr(<<oscar, bafta>>)
  /\ \E g \in Gets : Len(g.stack) = 3 /\ g.val = Arr(<<oscar, bafta>>)

(***************************************************************************)
(* C17 - objectify(names, extra) returns a mapping whose keys are exactly  *)
(* the names and the keys of extra; every key of extra maps to extra's     *)
(* value and every name that is no key of extra maps to the deferred       *)
(* lookup get(name) with required = true, so that extra wins on a key      *)
(* collision.                                                              *)
(***************************************************************************)
Objectify ==
  call.op = "objectify" =>
    LET names == {call.parameters[i] : i \in 1..Len(call.parameters)}
        extra == Obj(call.extra_object)
    IN /\ outcome.ok
       /\ outcome.val.t = "object"
       /\ Keys(outcome.val) = names \cup Keys(extra)
       /\ Cardinality(Keys(outcome.val)) = Len(outcome.val.entries)
       /\ \A key \in Keys(extra) :
            Lookup(outcome.val.entries, key) = Lookup(extra.entries, key)
       /\ \A name \in names \ Keys(extra) :
            Lookup(outcome.val.entries, name) = get(name, TRUE)

\* objectify was called with two names, one of them a key of extra
ObjectifyWitness ==
  /\ call.op = "objectify"
  /\ call.parameters = <<"x", "y">>
  /\ call.extra_object = <<Entry("y", get("y", FALSE))>>
  /\ outcome.val = Obj(<<Entry("x", get("x", TRUE)), Entry("y", get("y", FALSE))>>)

(***************************************************************************)
(* C18 - Evaluate produces concrete data: a successful evaluate(tree)      *)
(* returns a value that holds no function at any depth; a sequence keeps   *)
(* its length and the order of its elements, a mapping its keys in         *)
(* insertion order, a deferred value is replaced by the evaluation of what *)
(* it returns, and a literal (null included) is returned unchanged.        *)
(***************************************************************************)
\* val is tree made concrete on the stack stk
RECURSIVE Faithful(_, _, _)
Faithful(tree, val, stk) ==
  CASE tree.t = "function" ->
         LET r == invoke(tree, Undefined, [stack |-> stk, log |-> <<>>], MaxDepth) IN
         r.ok /\ Faithful(r.val, val, stk)
    [] tree.t = "array" ->
         /\ val.t = "array"
         /\ Len(val.items) = Len(tree.items)
         /\ \A i \in 1..Len(tree.items) : Faithful(tree.items[i], val.items[i], stk)
    [] tree.t = "object" ->
         /\ val.t = "object"
         /\ Len(val.entries) = Len(tree.entries)
         /\ \A i \in 1..Len(tree.entries) :
              /\ val.entries[i].k = tree.entries[i].k
              /\ Faithful(tree.entries[i].v, val.entries[i].v, stk)
    [] OTHER -> val = tree

EvaluateConcrete ==
  (call.op = "evaluate" /\ outcome.ok)
  => /\ IsConcrete(outcome.val)
     /\ Faithful(call.value, outcome.val, call.stack)

\* a sequence of deferred values, thunks of thunks among them, was evaluated
EvaluateConcreteWitness ==
  /\ call.op = "evaluate"
  /\ call.value =
       Arr(<<thunk(oscar), merge(<<a, b>>), thunk(Arr(<<thunk(bafta), oscar>>)), oscar>>)
  /\ outcome.ok
  /\ outcome.val = Arr(<<oscar, Str(<<"a", "b">>), Arr(<<bafta, oscar>>), oscar>>)

(***************************************************************************)
(* C19 - Evaluate idempotence: for every fully concrete value v (nested    *)
(* sequences and mappings of literals, null included), evaluate(v) equals  *)
(* v, and evaluate(evaluate(v)) equals evaluate(v).                        *)
(***************************************************************************)
EvaluateIdempotent ==
  (call.op = "evaluate" /\ IsConcrete(call.value))
  => /\ outcome.ok
     /\ outcome.val = call.value
     /\ Shown(evaluate(outcome.val, [stack |-> stack, log |-> <<>>], MaxDepth)) = outcome

\* a sequence holding a sequence and a mapping was evaluated
EvaluateIdempotentWitness ==
  /\ call.op = "evaluate"
  /\ call.value = nested
  /\ outcome.ok
  /\ outcome.val = nested

(***************************************************************************)
(* C20 - Late binding: a deferred frame entry is resolved against the      *)
(* stack as it stands when the entry is forced, not when its frame was     *)
(* built.  An entry get(y) for x resolves to what y is on the whole stack, *)
(* frames pushed above the entry's frame included (where the entries below *)
(* it complete, as in C3); and with the one frame                          *)
(* {url: template`https://${'domain'}/${'path'}`, path: 'movies/',         *)
(* prod: with({domain: 'website.com'}, get('url')), staging:               *)
(* with({domain: 'staging.website.com'}, get('url'))}, evaluating          *)
(* [get('prod'), get('staging')] gives ['https://website.com/movies/',     *)
(* 'https://staging.website.com/movies/'].                                 *)
(***************************************************************************)
LateBinding ==
  (call.op = "evaluate" /\ call.stack = <<>>) =>
    /\ call.value = urls
       => /\ outcome.ok
          /\ outcome.val = Arr(<<Str(https \o website \o <<"/">> \o movies),
                                 Str(https \o staging \o website \o <<"/">> \o movies)>>)
    /\ LET fs == Frames(call.value)
           es == EntriesFor(fs, "x")
       IN (/\ Body(call.value) = get("x", TRUE)
           /\ Len(es) > 0
           /\ es[Len(es)] = get("y", TRUE)
           /\ BelowCompleting(es, fs).ok)
          => Shown(get_evaluated("y", TRUE, [stack |-> fs, log |-> <<>>], MaxDepth))
               = outcome

\* the two addresses were evaluated: url was forced twice, each time under
\* another domain, in a frame that sets no domain
LateBindingWitness ==
  /\ call.op = "evaluate"
  /\ call.value = urls
  /\ outcome.ok
  /\ outcome.val.items[1] # outcome.val.items[2]
  /\ \E g \in Gets :
       /\ g.parameter = "domain"
       /\ Len(g.stack) = 2
       /\ ~In("domain", g.stack[1])
       /\ g.val = Str(staging \o website)

(***************************************************************************)
(* C21 - Null is a value, not unset: a parameter bound to the literal null *)
(* (concretely or through default(null)) counts as set: a required get     *)
(* returns null without the missing-parameter error, and a default(x) in a *)
(* later frame passes the inherited null through instead of replacing it   *)
(* with x.  (The entries below the topmost one complete, as in C3.)        *)
(***************************************************************************)
NullIsValue ==
  \A g \in Gets :
    LET es == EntriesFor(g.stack, g.parameter)
        top == es[Len(es)]
        below == Established(es, g.stack)
    IN (Len(es) > 0 /\ below.ok)
       => /\ top = Null => g.ok /\ g.val = Null
          /\ (top = default(Null) /\ below.val = Undefined) => g.ok /\ g.val = Null
          /\ (IsDefault(top) /\ below.val = Null) => g.ok /\ g.val = Null

\* a required get over default(null) and, above it, default('d') returned null
NullIsValueWitness ==
  \E g \in Gets :
    /\ EntriesFor(g.stack, g.parameter) = <<default(Null), default(d)>>
    /\ g.required
    /\ g.ok
    /\ g.val = Null

(***************************************************************************)
(* C22 - All-or-nothing evaluation: if forcing any subtree of tree fails,  *)
(* evaluate(tree) as a whole fails with that same error, propagated to the *)
(* caller with no retry or recovery; no partially resolved sequence or     *)
(* mapping is ever returned.                                               *)
(***************************************************************************)
\* the forces that report their own completion
Forces == {k \in 1..Len(log) : log[k].e \in {"get", "merge", "template", "get_evaluated"}}

\* the children of a sequence or mapping
Children(value) ==
  IF IsFunction(value) THEN <<>>
  ELSE IF value.t = "array" THEN value.items
  ELSE IF value.t = "object" THEN [i \in 1..Len(value.entries) |-> value.entries[i].v]
  ELSE <<>>

\* the child forced on its own, on the engine as it was at the call
Forced(child) == evaluate(child, [stack |-> call.stack, log |-> <<>>], MaxDepth)

AllOrNothing ==
  (call # Idle /\ call.op \in {"evaluate", "get_evaluated"})
  => /\ \A k \in Forces :
          ~log[k].ok => ~outcome.ok /\ outcome.err = log[k].err
     /\ \A w \in Withs : ~w.ok => ~outcome.ok
     /\ ~outcome.ok => outcome.val = Undefined
     /\ call.op = "evaluate"
        => LET children == Children(call.value)
               failing == {i \in 1..Len(children) : ~Forced(children[i]).ok}
           IN failing # {}
              => /\ ~outcome.ok
                 /\ \E i \in failing :
                      /\ \A j \in failing : i <= j
                      /\ outcome.err = Forced(children[i]).err

\* evaluate failed on the second element of a sequence after resolving the first
AllOrNothingWitness ==
  /\ call # Idle
  /\ call.op = "evaluate"
  /\ ~outcome.ok
  /\ \E k \in Forces, l \in Forces :
       /\ k < l
       /\ log[k].e = "get" /\ log[k].ok /\ log[k].val = a
       /\ log[l].e = "get" /\ ~log[l].ok
       /\ outcome.err = log[l].err
  /\ LET body == Body(call.value) IN ~IsFunction(body) /\ body.t = "array"

(***************************************************************************)
(* C23 - Strict nesting: in every execution in which no force fails,       *)
(* including re-entrant ones where forcing a frame entry itself forces     *)
(* further with(...) thunks, the frame removed by each pop is exactly the  *)
(* frame pushed by the same with invocation, and the frames below it are   *)
(* the same frames in the same order as at the moment of that push         *)
(* (push/pop pairs never interleave).                                      *)
(***************************************************************************)
RECURSIVE Nested(_, _)
\* the log from its k-th event on is well bracketed over the frames stk:
\* a pop removes the frame of the last open push, a with that returns
\* leaves the frames it was entered on, and the end is reached on the
\* frames of the call
Nested(k, stk) ==
  IF k > Len(log) THEN stk = call.stack
  ELSE LET event == log[k] IN
       IF event.e = "push"
       THEN /\ event.depth = Len(stk) + 1
            /\ Nested(k + 1, Append(stk, event.frame))
       ELSE IF event.e = "pop"
       THEN /\ Len(stk) > 0
            /\ event.frame = stk[Len(stk)]
            /\ event.depth = Len(stk) - 1
            /\ Nested(k + 1, SubSeq(stk, 1, Len(stk) - 1))
       ELSE IF event.e = "with"
       THEN /\ event.ok
            /\ event.before = stk
            /\ event.after = stk
            /\ k > 1 /\ log[k - 1].e = "pop" /\ log[k - 1].frame = event.frame
            /\ Nested(k + 1, stk)
       ELSE IF event.e = "get"
       THEN /\ event.stack = stk
            /\ event.after = stk
            /\ Nested(k + 1, stk)
       ELSE Nested(k + 1, stk)

StrictNesting ==
  (call # Idle /\ outcome.ok)
  => /\ Nested(1, call.stack)
     /\ stack = call.stack

\* a with entered while another was open, by forcing a frame entry, returned
StrictNestingWitness ==
  /\ call # Idle
  /\ call.op = "evaluate"
  /\ outcome.ok
  /\ \E k \in 1..Len(log), l \in 1..Len(log) :
       /\ k < l
       /\ log[k].e = "with" /\ log[l].e = "with"
       /\ log[k].frame = <<Entry("y", z)>>
       /\ log[k].before = Append(log[l].before, log[l].frame)
       /\ log[l].frame # log[k].frame

(***************************************************************************)
(* C24 - History independence: the outcome (result or error) of a          *)
(* top-level evaluate(tree) on an engine depends only on tree and not on   *)
(* which evaluate calls were made on the same engine before it, including  *)
(* earlier calls that failed; in particular the scope stack is empty       *)
(* whenever no evaluation is in progress.                                  *)
(***************************************************************************)
HistoryIndependence ==
  /\ call = Idle => stack = <<>>
  /\ (call # Idle /\ call.op = "evaluate")
     => /\ outcome = Shown(evaluate(call.value, [stack |-> <<>>, log |-> <<>>], MaxDepth))
        /\ stack = <<>>

(***************************************************************************)
(* C25 - Laziness at construction: calling get, with, wrap,                *)
(* wrap_with_defaults, defaults, default, objectify, template or merge     *)
(* only builds a deferred value: the call neither reads nor changes the    *)
(* scope stack and invokes no thunk or InheritedOp (nothing is pushed,     *)
(* popped, resolved, merged or rendered, and no error is raised, whatever  *)
(* the stack holds); the stack is read or changed only when the returned   *)
(* value is forced.                                                        *)
(***************************************************************************)
\* what a combinator returns is a function, or an object of functions
Deferred(combinator, value) ==
  IF combinator \in {"defaults", "objectify"}
  THEN /\ ~IsFunction(value)
       /\ value.t = "object"
       /\ \A i \in 1..Len(value.entries) :
            /\ IsFunction(value.entries[i].v)
            /\ value.entries[i].v.fn = (IF combinator = "defaults" THEN "default" ELSE "get")
  ELSE /\ IsFunction(value)
       /\ value.fn = (IF combinator = "wrap_with_defaults" THEN "wrap" ELSE combinator)

LazyConstruction ==
  (call # Idle /\ call.op = "construct")
  => /\ outcome.ok
     /\ outcome.val = call.value
     /\ Deferred(call.combinator, outcome.val)
     /\ stack = call.stack
     /\ log = <<>>

\* a with over a frame whose entry throws when forced was built on an engine
\* that holds a frame, and the value it returned fails when it is forced
LazyConstructionWitness ==
  /\ call # Idle
  /\ call.op = "construct"
  /\ call.combinator = "with"
  /\ call.stack # <<>>
  /\ stack = call.stack
  /\ outcome.ok
  /\ LET forced == evaluate(outcome.val, [stack |-> stack, log |-> <<>>], MaxDepth)
     IN ~forced.ok /\ forced.m.stack # stack /\ forced.m.log # <<>>

(***************************************************************************)
(* C26 - Frame immutability: no operation of the engine (with, wrap,       *)
(* defaults, get, get_evaluated, template, merge, evaluate) ever adds,     *)
(* removes or changes an entry of a frame after it has been built:         *)
(* resolving a parameter leaves every frame on the stack unchanged, the    *)
(* frames a call found on the stack are there unchanged after it, and      *)
(* every frame that is ever on the stack is a frame as the user built it   *)
(* (a frame of the tree, among them the frames defaults() returned, or a   *)
(* frame the stack held at the call).                                      *)
(***************************************************************************)
RECURSIVE FramesIn(_)
\* the frames built into a value, at any depth
FramesIn(value) ==
  LET Of(list) == UNION {FramesIn(list[i]) : i \in 1..Len(list)}
      Values(frame) == [i \in 1..Len(frame) |-> frame[i].v]
  IN IF IsFunction(value)
     THEN CASE value.fn = "with" ->
                 {value.frame} \cup Of(Values(value.frame)) \cup FramesIn(value.value)
            [] value.fn \in {"wrap", "default"} -> FramesIn(value.value)
            [] value.fn = "merge" -> Of(value.items)
            [] value.fn = "thunk" -> FramesIn(value.body)
            [] OTHER -> {}
     ELSE IF value.t = "array" THEN Of(value.items)
     ELSE IF value.t = "object" THEN Of(Values(value.entries))
     ELSE {}

\* the frames the user has built when the call is made
Built ==
  UNION {{call.stack[i]} \cup FramesIn(Obj(call.stack[i])) : i \in 1..Len(call.stack)}
  \cup (IF call.op = "evaluate" THEN FramesIn(call.value) ELSE {})

\* stk begins with the frames of base, unchanged
Keeps(stk, base) ==
  /\ Len(stk) >= Len(base)
  /\ SubSeq(stk, 1, Len(base)) = base

FrameImmutability ==
  (call # Idle /\ call.op \in {"evaluate", "get_evaluated"})
  => /\ Keeps(stack, call.stack)
     /\ \A i \in 1..Len(stack) : stack[i] \in Built
     /\ \A g \in Gets :
          /\ Keeps(g.after, g.stack)
          /\ g.ok => g.after = g.stack
          /\ \A i \in 1..Len(g.stack) : g.stack[i] \in Built
     /\ \A w \in Withs :
          /\ Keeps(w.after, w.before)
          /\ \A i \in 1..Len(w.after) : w.after[i] \in Built

\* the same parameter was resolved twice over two frames, an InheritedOp
\* of these frames was applied, and both resolutions saw the same frames
FrameImmutabilityWitness ==
  /\ call # Idle
  /\ call.op = "evaluate"
  /\ \E k \in 1..Len(log), l \in 1..Len(log) :
       /\ k < l
       /\ log[k].e = "get" /\ log[l].e = "get"
       /\ log[k].ok /\ log[l].ok
       /\ log[k].parameter = log[l].parameter
       /\ log[k].stack = log[l].stack
       /\ log[l].after = log[k].stack
       /\ Len(log[k].stack) = 2
       /\ \E g \in Gets :
            LET es == EntriesFor(g.stack, g.parameter)
            IN /\ g.ok
               /\ g.stack = log[k].stack
               /\ Len(es) > 0
               /\ IsInheritedOp(es[Len(es)])

(***************************************************************************)
(* C27 - No cycle detection: evaluating a value whose forcing transitively *)
(* depends on itself (for example with({x: get('x')}, get('x'))) never     *)
(* produces a result and raises no dedicated cycle error: the evaluation   *)
(* recurses until the call stack of the runtime is used up, however deep   *)
(* that is, resolving the parameter again and again; conversely, evaluate  *)
(* of a finite tree whose thunks have no such self-dependency, on an       *)
(* engine that holds no such frame, terminates.                            *)
(***************************************************************************)
NoCycleDetection ==
  (call # Idle /\ call.op \in {"evaluate", "get_evaluated"})
  => /\ (call.op = "evaluate" /\ call.value \in Cycles)
        => /\ ~outcome.ok
           /\ outcome.err = RangeError
           /\ Cardinality({k \in 1..Len(log) : log[k].e = "get" /\ log[k].ok})
                >= MaxDepth \div 2 - 1
     /\ outcome.err = RangeError
        => call.op = "evaluate" /\ call.value \in Cycles

\* with({x: get('x')}, get('x')) was evaluated on a new engine
NoCycleDetectionWitness ==
  /\ call # Idle
  /\ call.op = "evaluate"
  /\ call.stack = <<>>
  /\ call.value = with(<<Entry("x", get("x", TRUE))>>, get("x", TRUE))
  /\ ~outcome.ok
  /\ \E g \in Gets : g.ok /\ g.val = get("x", TRUE)

(***************************************************************************)
(* C28 - A frame that contains the key p bound to unset (undefined) still  *)
(* takes part in the scan as a concrete overwrite: it resets the           *)
(* accumulated value to unset, hiding any value an outer frame established *)
(* for p, so a required get(p) then fails with the missing-parameter error *)
(* and get(p, false) returns unset unless a later frame sets p again: the  *)
(* frames above the one that binds undefined resolve as if nothing were    *)
(* below them.                                                             *)
(***************************************************************************)
UndefinedResets ==
  \A g \in Gets :
    LET es == EntriesFor(g.stack, g.parameter) IN
    \A i \in 1..Len(es) :
      LET above == SubSeq(es, i + 1, Len(es)) IN
      (es[i] = Undefined /\ Established(SubSeq(es, 1, i), g.stack).ok)
      => /\ above = <<>>
            => /\ g.required
                  => IsMissing(g) /\ g.err = MissingParameterError(g.parameter, g.stack)
               /\ ~g.required => g.ok /\ g.val = Undefined
         /\ (above # <<>> /\ \A j \in 1..Len(above) : IsInheritedOp(above[j]))
            => ShownEvent(g) = Required(g, ApplyOps(above, Undefined, g.stack))
         /\ (Len(above) = 1 /\ ~IsInheritedOp(above[1]) /\ above[1] # Undefined)
            => g.ok /\ g.val = above[1]

\* a required get failed for a parameter that an outer frame set and an
\* inner frame bound to undefined
UndefinedResetsWitness ==
  \E g \in Gets :
    /\ EntriesFor(g.stack, g.parameter) = <<a, Undefined>>
    /\ g.required
    /\ IsMissing(g)

(***************************************************************************)
(* C29 - Resolution is not short-circuited: during get(p) every            *)
(* InheritedOp for p in a frame below a later concrete overwrite is still  *)
(* invoked (with the forced prior value) even though its result is         *)
(* discarded, so a failure raised by such an outer op (for example a merge *)
(* of an unsupported type) makes get(p) fail although an inner frame       *)
(* supplies a concrete value for p.  (The entries below the op complete.)  *)
(***************************************************************************)
\* the events logged while the get g ran
During(g) ==
  {k \in 1..Len(log) :
     \E l \in 1..Len(log) : log[l] = g /\ g.from < k /\ k < l}

NotShortCircuited ==
  \A g \in Gets :
    LET es == EntriesFor(g.stack, g.parameter) IN
    \A i \in 1..Len(es) :
      LET prior == Established(SubSeq(es, 1, i), g.stack)
          r == invoke(es[i], prior.val, [stack |-> g.stack, log |-> <<>>], MaxDepth)
      IN (/\ IsInheritedOp(es[i])
          /\ \E c \in i + 1..Len(es) : ~IsInheritedOp(es[c])
          /\ prior.ok)
         => /\ ~r.ok => ~g.ok /\ g.err = r.err
            /\ (IsMerge(es[i]) /\ (r.ok \/ r.err.kind = "UnsupportedMergeTypeError"))
               => \E k \in During(g) :
                    /\ log[k].e = "merge"
                    /\ log[k].inherited = prior.val
                    /\ ShownEvent(log[k]) = Shown(r)

\* a get failed on the merge of a number in an outer frame although the
\* inner frame binds the parameter to 'a'
NotShortCircuitedWitness ==
  \E g \in Gets :
    /\ EntriesFor(g.stack, g.parameter) = <<merge(<<Num(1)>>), a>>
    /\ ~g.ok
    /\ g.err.kind = "UnsupportedMergeTypeError"
    /\ \E k \in During(g) : log[k].e = "merge" /\ ~log[k].ok

====
